---- MODULE Spec2Model ----
(***************************************************************************)
(* Banner server (server.py): a tornado application that loads a CSV       *)
(* configuration of banners (url;shows;category;...) and answers each GET  *)
(* with one banner of the requested categories that still has shows left,  *)
(* avoiding the banner last shown to the requesting IP.                    *)
(*                                                                         *)
(* Python values are modelled as follows: a list is a sequence, a dict is  *)
(* a function whose DOMAIN is its key set, None is the string "None"       *)
(* (no banner url of the model is spelled that way), a CSV field is a      *)
(* string.                                                                 *)
(***************************************************************************)
EXTENDS Integers, Sequences, FiniteSets, TLC

VARIABLES
    config,             \* rows of config.csv, as csv.reader yields them
    started,            \* Application() returned (read_config raised nothing)
    banner_urls,        \* Application.banner_urls: list
    banner_shows,       \* Application.banner_shows: dict url -> int
    banner_categories,  \* Application.banner_categories: defaultdict(list)
    last_banners,       \* Application.last_banners: dict ip -> url
    response,           \* the response written by the latest MainHandler.get
    conns,              \* connections accepted by the IOLoop, with their answers
    serves,             \* history: url -> number of responses that carried it
    last_served         \* history: ip -> banner of its latest 200 response

vars == <<config, started, banner_urls, banner_shows, banner_categories,
          last_banners, response, conns, serves, last_served>>

app == <<banner_urls, banner_shows, banner_categories, last_banners>>

----------------------------------------------------------------------------
(* Bounds of the model *)

MaxRecords == 2

MaxShows == 2

MaxConns == 3

(* Inputs *)

None == "None"

URLs == {"", "a", "b"}

IPs == {"ip1", "ip2"}

CategoryLists == {<<>>, <<"x">>, <<"y">>, <<"x", "y">>}

RequestCategories ==
    {<<>>, <<"x">>, <<"y">>, <<"z">>, <<"x", "y">>, <<"x", "z">>}

----------------------------------------------------------------------------
(* Python built-ins *)

Numeral == <<"0", "1", "2", "3", "4", "5", "6", "7", "8", "9">>

\* str(n) for -9 <= n <= 9
str(n) == IF n < 0 THEN "-" \o Numeral[1 - n] ELSE Numeral[n + 1]

\* int(s) succeeds on a decimal literal, raises ValueError otherwise
IsIntLiteral(s) == \E n \in -9..9 : str(n) = s

int(s) == CHOOSE n \in -9..9 : str(n) = s

Range(s) == {s[i] : i \in 1..Len(s)}

\* bool(v) for v a string or None
Truthy(v) == v # None /\ v # ""

RECURSIVE SetToList(_)
\* list(set(...)): the elements once each; the order is the set's iteration
\* order, which no caller of this list depends on (choose_banner draws any
\* index, remove() acts on a list without repetitions)
SetToList(S) ==
    IF S = {} THEN <<>>
    ELSE LET x == CHOOSE y \in S : TRUE IN <<x>> \o SetToList(S \ {x})

\* list.remove(x): drops the first occurrence of x (x is in the list)
ListRemove(l, x) ==
    LET i == CHOOSE k \in 1..Len(l) :
                 l[k] = x /\ \A j \in 1..(k - 1) : l[j] # x
    IN  SubSeq(l, 1, i - 1) \o SubSeq(l, i + 1, Len(l))

\* dict assignment d[k] = v
DictSet(d, k, v) == [x \in DOMAIN d \cup {k} |-> IF x = k THEN v ELSE d[x]]

\* dict.get(k): None when the key is absent
DictGet(d, k) == IF k \in DOMAIN d THEN d[k] ELSE None

\* defaultdict(list).__getitem__ inserts [] under a missing key
DefaultDictTouch(d, k) ==
    [x \in DOMAIN d \cup {k} |-> IF x \in DOMAIN d THEN d[x] ELSE <<>>]

EmptyDict == [x \in {} |-> 0]

----------------------------------------------------------------------------
(* Application.read_config *)

ShowsFields == {str(n) : n \in -1..MaxShows} \cup {"many"}

\* the rows csv.reader can yield here: url;shows;categories..., a row with
\* a single field, or no field at all (an empty line)
Rows == {<<u, s>> \o cl : u \in URLs, s \in ShowsFields, cl \in CategoryLists}
        \cup {<<u>> : u \in URLs} \cup {<<>>}

RECURSIVE SeqsUpTo(_, _)
SeqsUpTo(S, n) ==
    IF n = 0 THEN {<<>>}
    ELSE LET shorter == SeqsUpTo(S, n - 1)
         IN  shorter \cup {Append(q, x) : q \in {p \in shorter : Len(p) = n - 1}, x \in S}

Configs == SeqsUpTo(Rows, MaxRecords)

\* row[0] and row[1] exist and int(row[1]) parses
RowLoads(row) == Len(row) >= 2 /\ IsIntLiteral(row[2])

RECURSIVE AppendCategories(_, _, _)
\* for category in categories: self.banner_categories[category].append(url)
AppendCategories(bc, categories, url) ==
    IF categories = <<>> THEN bc
    ELSE LET c == Head(categories)
             touched == DefaultDictTouch(bc, c)
         IN  AppendCategories([touched EXCEPT ![c] = Append(@, url)],
                              Tail(categories), url)

\* the body of the loop over the rows
LoadRow(st, row) ==
    LET url == row[1]
        shows == int(row[2])
        categories == SubSeq(row, 3, Len(row))
    IN  [urls |-> Append(st.urls, url),
         categories |-> AppendCategories(st.categories, categories, url),
         shows |-> DictSet(st.shows, url, shows),
         ok |-> TRUE]

RECURSIVE LoadRows_skipping(_, _)
\* mutant: a row that does not load is skipped (try/except around the body)
LoadRows_skipping(st, rows) ==
    IF rows = <<>> THEN st
    ELSE IF ~RowLoads(Head(rows)) THEN LoadRows_skipping(st, Tail(rows))
    ELSE LoadRows_skipping(LoadRow(st, Head(rows)), Tail(rows))

RECURSIVE LoadRows(_, _)
LoadRows(st, rows) ==
    IF rows = <<>> THEN st
    ELSE IF ~RowLoads(Head(rows)) THEN [st EXCEPT !.ok = FALSE]
    ELSE LoadRows(LoadRow(st, Head(rows)), Tail(rows))

read_config(rows) ==
    LoadRows([urls |-> <<>>, shows |-> EmptyDict, categories |-> EmptyDict,
              ok |-> TRUE], rows)

----------------------------------------------------------------------------
(* Application.get_last_banner / set_last_banner *)

get_last_banner(ip) == DictGet(last_banners, ip)

\* mutant: the dict is replaced instead of updated
set_last_banner_replacing(lb, ip, banner_url) == [x \in {ip} |-> banner_url]

set_last_banner(lb, ip, banner_url) == DictSet(lb, ip, banner_url)

----------------------------------------------------------------------------
(* MainHandler.get_available_banners_for_categories *)

RECURSIVE Flatten(_, _)
\* [banner_url for category in categories
\*             for banner_url in self.application.banner_categories[category]]
Flatten(bc, categories) ==
    IF categories = <<>> THEN <<>>
    ELSE LET c == Head(categories)
         IN  DefaultDictTouch(bc, c)[c] \o Flatten(DefaultDictTouch(bc, c), Tail(categories))

RECURSIVE touch_categories(_, _)
\* what the comprehension above leaves in the defaultdict: every category it
\* looked up is a key afterwards
touch_categories(bc, categories) ==
    IF categories = <<>> THEN bc
    ELSE touch_categories(DefaultDictTouch(bc, Head(categories)), Tail(categories))

\* mutant: a category that is not a key makes the filter void
category_banners_unknown_is_any(categories) ==
    IF categories # <<>> /\ Range(categories) \subseteq DOMAIN banner_categories
    THEN SetToList(Range(Flatten(banner_categories, categories)))
    ELSE banner_urls

\* mutant: the requested categories are ignored
category_banners_unfiltered(categories) == banner_urls

\* lines 49-54: the candidates of the request
category_banners(categories) ==
    IF categories # <<>>
    THEN SetToList(Range(Flatten(banner_categories, categories)))
    ELSE banner_urls

\* mutant: >= 0 in place of > 0
positive_shows_or_zero(banners) ==
    SelectSeq(banners, LAMBDA u : banner_shows[u] >= 0)

\* lines 57-58: filter by positive available show count
positive_shows(banners) == SelectSeq(banners, LAMBDA u : banner_shows[u] > 0)

\* mutant: the last banner is removed even when it is the only one
remove_last_even_if_alone(banners, last_banner) ==
    IF Truthy(last_banner) /\ last_banner \in Range(banners)
    THEN ListRemove(banners, last_banner)
    ELSE banners

\* lines 61-64: remove the last banner if more than one is available
remove_last(banners, last_banner) ==
    IF Truthy(last_banner) /\ last_banner \in Range(banners) /\ Len(banners) > 1
    THEN ListRemove(banners, last_banner)
    ELSE banners

get_available_banners_for_categories(categories, ip) ==
    remove_last(positive_shows(category_banners(categories)), get_last_banner(ip))

----------------------------------------------------------------------------
(* MainHandler.choose_banner: the banners random.randint can select *)

\* mutant: randint(0, 0)
choose_banner_first(banners) == IF banners = <<>> THEN {} ELSE {banners[1]}

choose_banner(banners) == {banners[n + 1] : n \in 0..(Len(banners) - 1)}

----------------------------------------------------------------------------
(* MainHandler.output_banner, banner_not_found *)

\* mutants: every count is decreased; the count is decreased by two; the
\* count is not written back
decrease_shows_of_all(shows, banner_url) == [u \in DOMAIN shows |-> shows[u] - 1]

decrease_shows_by_two(shows, banner_url) == [shows EXCEPT ![banner_url] = @ - 2]

decrease_shows_lost(shows, banner_url) == shows

\* self.application.banner_shows[banner_url] -= 1
decrease_shows(shows, banner_url) == [shows EXCEPT ![banner_url] = @ - 1]

output_banner(ip, categories, banner_url) ==
    /\ response' = [ip |-> ip, categories |-> categories, status |-> 200,
                    banner |-> banner_url]
    /\ banner_shows' = decrease_shows(banner_shows, banner_url)
    /\ last_banners' = set_last_banner(last_banners, ip, banner_url)
    /\ serves' = [serves EXCEPT ![banner_url] = @ + 1]
    /\ last_served' = [last_served EXCEPT ![ip] = banner_url]

banner_not_found(ip, categories) ==
    /\ response' = [ip |-> ip, categories |-> categories, status |-> 404,
                    banner |-> None]
    /\ UNCHANGED <<banner_shows, last_banners, serves, last_served>>

----------------------------------------------------------------------------
(* MainHandler.get: the coroutine holds no yield, so the IOLoop runs it to  *)
(* completion before it starts another callback                            *)

Handle(ip, categories) ==
    LET available_banners == get_available_banners_for_categories(categories, ip)
    IN  /\ banner_categories' = touch_categories(banner_categories, categories)
        /\ IF available_banners # <<>>
           THEN \E target_banner \in choose_banner(available_banners) :
                    output_banner(ip, categories, target_banner)
           ELSE banner_not_found(ip, categories)
        /\ UNCHANGED <<config, started, banner_urls>>

\* a request arrives and is handled
Get ==
    /\ started
    /\ \E ip \in IPs, categories \in RequestCategories : Handle(ip, categories)
    /\ UNCHANGED conns

\* one of the connections already accepted is handled
GetConn ==
    /\ started
    /\ \E i \in 1..Len(conns) :
          /\ conns[i].status = 0
          /\ Handle(conns[i].ip, conns[i].categories)
          /\ conns' = [conns EXCEPT ![i] = response']

----------------------------------------------------------------------------
(* Application.__init__ *)

NoResponse == [ip |-> None, categories |-> <<>>, status |-> 0, banner |-> None]

Construct(rows) ==
    LET st == read_config(rows)
    IN  /\ config = rows
        /\ started = st.ok
        /\ banner_urls = st.urls
        /\ banner_shows = st.shows
        /\ banner_categories = st.categories
        /\ last_banners = EmptyDict
        /\ response = NoResponse
        /\ serves = [u \in DOMAIN st.shows |-> 0]
        /\ last_served = [ip \in IPs |-> None]

Init == \E rows \in Configs : Construct(rows) /\ conns = <<>>

Next == Get

Spec == Init /\ [][Next]_vars

----------------------------------------------------------------------------
(* Vocabulary of the properties *)

\* the category candidate set of a request: the banners filed under one of
\* the requested categories, or every loaded banner when none is requested
CandidateSet(categories) ==
    IF categories = <<>> THEN Range(banner_urls)
    ELSE UNION {Range(banner_categories[c]) :
                    c \in Range(categories) \cap DOMAIN banner_categories}

\* the budget-eligible candidates of a request, before anti-repetition
BudgetEligible(categories) ==
    {u \in CandidateSet(categories) : banner_shows[u] > 0}

\* the budget the configuration gives banner u: that of the last record
\* carrying this identifier
ConfiguredBudget(u) ==
    LET last == CHOOSE i \in 1..Len(config) :
                    config[i][1] = u /\ \A j \in (i + 1)..Len(config) : config[j][1] # u
    IN  int(config[last][2])

NonNegativeConfig == \A i \in 1..Len(config) : int(config[i][2]) >= 0

Requests == IPs \X RequestCategories

----------------------------------------------------------------------------
(* Requests in flight together *)

\* A burst: M connections, all asking for the categories of one banner whose
\* count is below M, are accepted before the IOLoop runs any handler; the
\* IOLoop then runs the handlers one at a time, in any order
Accepted(ips, categories) ==
    [i \in DOMAIN ips |-> [ip |-> ips[i], categories |-> categories,
                           status |-> 0, banner |-> None]]

InitBurst ==
    \E rows \in Configs :
        /\ Construct(rows)
        /\ started
        /\ \E categories \in RequestCategories, M \in 1..MaxConns :
              /\ Cardinality(CandidateSet(categories)) = 1
              /\ \A X \in CandidateSet(categories) : banner_shows[X] \in 0..(M - 1)
              /\ \E ips \in [1..M -> IPs] : conns = Accepted(ips, categories)

NextBurst == GetConn

SpecBurst == InitBurst /\ [][NextBurst]_vars

----------------------------------------------------------------------------
(* C1: whatever the configuration, the requested categories and the ledger, *)
(* the list get_available_banners_for_categories returns holds no banner    *)
(* whose show count is <= 0, and the banner of a 200 response had a count   *)
(* > 0 before its decrement (so its count is >= 0 after it).                *)

C1_AvailableHavePositiveShows ==
    started =>
        /\ \A rq \in Requests :
              \A u \in Range(get_available_banners_for_categories(rq[2], rq[1])) :
                  banner_shows[u] > 0
        /\ response.status = 200 => banner_shows[response.banner] >= 0

\* a banner was served by a request that had an exhausted candidate to filter out
C1_Witness ==
    /\ started
    /\ response.status = 200
    /\ \E u \in CandidateSet(response.categories) :
          u # response.banner /\ banner_shows[u] <= 0

----------------------------------------------------------------------------
(* C2: a client whose history entry is banner B is never served B by a      *)
(* request whose budget-eligible candidates hold B and a banner other than  *)
(* B, for every configuration the loader accepts.                           *)

C2_NeverRepeatsWhenAlternative ==
    [][started /\ response'.status = 200 =>
          LET ip == response'.ip
              eligible == BudgetEligible(response'.categories)
          IN  (/\ ip \in DOMAIN last_banners
               /\ last_banners[ip] \in eligible
               /\ eligible # {last_banners[ip]})
              => response'.banner # last_banners[ip]]_vars

----------------------------------------------------------------------------
(* C3: a request is answered 200 exactly when its category candidate set    *)
(* holds a banner with count > 0; when the only such banner is the client's *)
(* last banner, the request is answered 200 with that banner.               *)

C3_ServedIffEligible ==
    [][started =>
          LET eligible == BudgetEligible(response'.categories)
              last == get_last_banner(response'.ip)
          IN  /\ response'.status \in {200, 404}
              /\ response'.status = 200 <=> eligible # {}
              /\ response'.status = 200 => response'.banner \in eligible
              /\ eligible = {last} =>
                    response'.status = 200 /\ response'.banner = last]_vars

\* one client was served the only banner twice in a row
C3_Witness ==
    /\ started
    /\ response.status = 200
    /\ Len(banner_urls) = 1
    /\ serves[response.banner] = 2
    /\ DOMAIN last_banners = {response.ip}

----------------------------------------------------------------------------
(* C4: configured budget minus ledger count is the number of serves of the  *)
(* banner; a serve lowers the served banner's count by one and no other;    *)
(* a banner of budget B >= 0 is served at most B times and, served B times, *)
(* is not found by a request whose candidates are that banner alone.        *)

C4_Accounting ==
    started =>
        \A u \in DOMAIN banner_shows :
            /\ ConfiguredBudget(u) - banner_shows[u] = serves[u]
            /\ ConfiguredBudget(u) >= 0 => serves[u] <= ConfiguredBudget(u)
            /\ serves[u] = ConfiguredBudget(u) =>
                  \A rq \in Requests :
                      CandidateSet(rq[2]) = {u} =>
                          get_available_banners_for_categories(rq[2], rq[1]) = <<>>

C4_ServeDecrementsOne ==
    started =>
        /\ response'.status = 200 =>
              /\ serves' = [serves EXCEPT ![response'.banner] = @ + 1]
              /\ banner_shows' =
                    [banner_shows EXCEPT ![response'.banner] = @ - 1]
        /\ response'.status = 404 => serves' = serves /\ banner_shows' = banner_shows

C4_ShowAccounting == []C4_Accounting /\ [][C4_ServeDecrementsOne]_vars

\* a banner of budget 2 has been served twice and is no longer found
C4_Witness ==
    /\ started
    /\ response.status = 404
    /\ \E u \in DOMAIN banner_shows :
          /\ ConfiguredBudget(u) = 2
          /\ serves[u] = 2
          /\ CandidateSet(response.categories) = {u}

----------------------------------------------------------------------------
(* C5: from a configuration whose budgets are all non-negative, every count *)
(* stays within 0..(configured budget); no count is decremented from a      *)
(* value that is not strictly positive.                                     *)

C5_InRange ==
    started /\ NonNegativeConfig =>
        \A u \in DOMAIN banner_shows : banner_shows[u] \in 0..ConfiguredBudget(u)

C5_DecrementFromPositive ==
    \A u \in DOMAIN banner_shows :
        banner_shows'[u] # banner_shows[u] => banner_shows[u] > 0

C5_LedgerBound == []C5_InRange /\ [][C5_DecrementFromPositive]_vars

\* both banners of a non-negative configuration are exhausted
C5_Witness ==
    /\ started
    /\ NonNegativeConfig
    /\ Cardinality(DOMAIN banner_shows) = 2
    /\ \A u \in DOMAIN banner_shows : ConfiguredBudget(u) > 0 /\ banner_shows[u] = 0

----------------------------------------------------------------------------
(* C6: M accepted requests that all target one banner of budget B, M > B:   *)
(* whatever the order of handling, once all are answered exactly B carry    *)
(* the banner and M - B are 404, the count is 0, and it was never negative. *)

Answered(status) == {i \in 1..Len(conns) : conns[i].status = status}

\* the banner the accepted requests all target, when there is exactly one
BurstTargets == CandidateSet(conns[1].categories)

C6_BurstServesExactlyBudget ==
    \A X \in BurstTargets :
        LET B == ConfiguredBudget(X)
            M == Len(conns)
        IN  (BurstTargets = {X} /\ B >= 0 /\ M > B) =>
                /\ banner_shows[X] >= 0
                /\ \A i \in Answered(200) : conns[i].banner = X
                /\ Answered(0) = {} =>
                      /\ Cardinality(Answered(200)) = B
                      /\ Cardinality(Answered(404)) = M - B
                      /\ banner_shows[X] = 0

\* three requests for a banner of budget 2, all answered, and the one
\* accepted first is the one that was not served
C6_Witness ==
    /\ Len(conns) = 3
    /\ Cardinality(BurstTargets) = 1
    /\ \A X \in BurstTargets : ConfiguredBudget(X) = 2
    /\ conns[1].status = 404
    /\ conns[2].status = 200
    /\ conns[3].status = 200

----------------------------------------------------------------------------
(* C7: a request answered 404 leaves the ledger, the history, the banner    *)
(* list and the category index as they were.                                *)

C7_NotFoundMutatesNothing ==
    [][started /\ response'.status = 404 => UNCHANGED app]_vars

----------------------------------------------------------------------------
(* C8: the banner served to a request with a non-empty category list is     *)
(* registered in the configuration under one of the requested categories.   *)

\* some record of the configuration files banner u under category c
Registered(u, c) ==
    \E i \in 1..Len(config) :
        config[i][1] = u /\ c \in Range(SubSeq(config[i], 3, Len(config[i])))

C8_ServedBannerIsInRequestedCategory ==
    started /\ response.status = 200 /\ response.categories # <<>> =>
        \E c \in Range(response.categories) : Registered(response.banner, c)

\* a banner was served while a banner outside the requested categories
\* still had shows left
C8_Witness ==
    /\ started
    /\ response.status = 200
    /\ response.categories # <<>>
    /\ \E u \in DOMAIN banner_shows :
          /\ banner_shows[u] > 0
          /\ \A c \in Range(response.categories) : ~Registered(u, c)

----------------------------------------------------------------------------
(* C9: a request without categories can be answered with any loaded banner  *)
(* that has shows left, whether or not it belongs to a category, except     *)
(* the client's last banner when another banner has shows left.             *)

ServedWith(ip, categories, u) ==
    Get /\ response' = [ip |-> ip, categories |-> categories, status |-> 200,
                        banner |-> u]

C9_EmptyFilterOffersEveryBanner ==
    started =>
        \A ip \in IPs : \A u \in Range(banner_urls) :
            (/\ banner_shows[u] > 0
             /\ ~(u = get_last_banner(ip) /\ BudgetEligible(<<>>) # {u})) =>
                ENABLED ServedWith(ip, <<>>, u)

\* a request without categories was served a banner that is in no category,
\* while a banner that is in one had shows left
C9_Witness ==
    /\ started
    /\ response.status = 200
    /\ response.categories = <<>>
    /\ \A c \in {"x", "y"} : ~Registered(response.banner, c)
    /\ \E u \in DOMAIN banner_shows :
          u # response.banner /\ banner_shows[u] > 0 /\ Registered(u, "x")

----------------------------------------------------------------------------
(* C10: the history entry of a client is absent until a request of that     *)
(* client is served, and is then the banner of its latest 200 response; a   *)
(* serve changes no other client's entry and no entry is deleted.           *)

C10_EntryIsLatestServe ==
    started =>
        \A ip \in IPs :
            /\ ip \in DOMAIN last_banners <=> last_served[ip] # None
            /\ ip \in DOMAIN last_banners => last_banners[ip] = last_served[ip]

C10_ServeTouchesOneEntry ==
    /\ DOMAIN last_banners \subseteq DOMAIN last_banners'
    /\ \A ip \in DOMAIN last_banners :
          ip # response'.ip => last_banners'[ip] = last_banners[ip]
    /\ response'.status = 200 => last_banners'[response'.ip] = response'.banner
    /\ response'.status # 200 => last_banners' = last_banners

C10_History == []C10_EntryIsLatestServe /\ [][C10_ServeTouchesOneEntry]_vars

\* both clients have an entry, for different banners, after three serves:
\* one entry has been overwritten
C10_Witness ==
    /\ started
    /\ DOMAIN last_banners = IPs
    /\ last_banners["ip1"] # last_banners["ip2"]
    /\ \E u, v \in DOMAIN serves : u # v /\ serves[u] = 2 /\ serves[v] >= 1

----------------------------------------------------------------------------
(* C11: a requested category under which no banner is registered is no      *)
(* error and adds no candidate: a request naming only such categories is    *)
(* answered 404, and a request naming some of them beside registered ones   *)
(* has the possible answers of the request naming the registered ones.      *)

\* the answers MainHandler.get can give the request of ip for categories:
\* a banner choose_banner can draw from the available ones, or 404
Outcomes(ip, categories) ==
    LET available_banners == get_available_banners_for_categories(categories, ip)
    IN  IF available_banners # <<>>
        THEN {<<200, u>> : u \in choose_banner(available_banners)}
        ELSE {<<404, None>>}

KnownCategory(c) == \E u \in URLs : Registered(u, c)

C11_UnknownCategoryAddsNothing ==
    started =>
        \A ip \in IPs : \A categories \in RequestCategories \ {<<>>} :
            LET known == SelectSeq(categories, KnownCategory)
                outcomes == Outcomes(ip, categories)
            IN  known # categories =>
                    /\ outcomes # {}
                    /\ known = <<>> => outcomes = {<<404, None>>}
                    /\ known # <<>> => outcomes = Outcomes(ip, known)

\* a request naming the registered category x and the unregistered category
\* z was served a banner
C11_Witness ==
    /\ started
    /\ response.status = 200
    /\ response.categories = <<"x", "z">>
    /\ ~KnownCategory("z")

----------------------------------------------------------------------------
(* C12: the application is not constructed when the shows field of some     *)
(* record is not a non-negative integer: not an integer, or negative.       *)

ValidShows(field) == IsIntLiteral(field) /\ int(field) >= 0

C12_InvalidShowsFailsLoad ==
    (\E i \in 1..Len(config) : Len(config[i]) >= 2 /\ ~ValidShows(config[i][2]))
        => ~started

----------------------------------------------------------------------------
(* C13: a record with fewer than two fields, at any position, makes the     *)
(* construction fail: no request is answered, whatever was loaded from the  *)
(* records before it.                                                       *)

Malformed(row) == Len(row) < 2

C13_MalformedRecordFailsLoad ==
    (\E i \in 1..Len(config) : Malformed(config[i])) =>
        /\ ~started
        /\ response = NoResponse
        /\ \A u \in DOMAIN serves : serves[u] = 0
        /\ ~ENABLED Next

\* the first record was loaded, the second one has a single field
C13_Witness ==
    /\ ~started
    /\ Len(config) = 2
    /\ ~Malformed(config[1])
    /\ Malformed(config[2])
    /\ Len(banner_urls) = 1
    /\ banner_shows[banner_urls[1]] > 0

----------------------------------------------------------------------------
(* C14: no request changes the banner list or the category index: both are  *)
(* what the loader built, and the category index names loaded banners only. *)

C14_InventoryAsLoaded ==
    started =>
        /\ banner_urls = read_config(config).urls
        /\ banner_categories = read_config(config).categories
        /\ \A c \in DOMAIN banner_categories :
              Range(banner_categories[c]) \subseteq Range(banner_urls)

----------------------------------------------------------------------------
(* C15: after the load the ledger holds one entry per record, seeded to the *)
(* budget of that record, also when records share an identifier.            *)

C15_LedgerSeededPerRecord ==
    started /\ response = NoResponse =>
        /\ Cardinality(DOMAIN banner_shows) = Len(config)
        /\ \A i \in 1..Len(config) : banner_shows[config[i][1]] = int(config[i][2])

----------------------------------------------------------------------------
(* MainHandler.get, statement by statement.  A connection whose handler has *)
(* filtered and chosen (lines 21-29) and has not yet written its answer     *)
(* (lines 32-37) has status 1 and carries the banner it chose (None for the *)
(* 404 branch) with the ledger and the history it read.  The IOLoop starts  *)
(* a handler only when no other callback is running, and a coroutine gives  *)
(* the IOLoop back only at a yield: get holds none.                         *)

\* mutant: a yield between choose_banner and output_banner
IOLoopFree_yielding == TRUE

\* no handler is between its first and its last statement
IOLoopFree == \A j \in 1..Len(conns) : conns[j].status # 1

\* lines 21-29
BeginGet ==
    /\ started
    /\ IOLoopFree
    /\ \E i \in 1..Len(conns) :
          /\ conns[i].status = 0
          /\ LET ip == conns[i].ip
                 categories == conns[i].categories
                 available_banners ==
                     get_available_banners_for_categories(categories, ip)
             IN  /\ banner_categories' = touch_categories(banner_categories, categories)
                 /\ \E target_banner \in
                        (IF available_banners # <<>>
                         THEN choose_banner(available_banners) ELSE {None}) :
                        conns' = [conns EXCEPT ![i] =
                                     [ip |-> ip, categories |-> categories,
                                      status |-> 1, banner |-> target_banner,
                                      shows |-> banner_shows,
                                      last |-> last_banners]]
    /\ UNCHANGED <<config, started, banner_urls, banner_shows, last_banners,
                   response, serves, last_served>>

\* lines 32-37
FinishGet ==
    /\ started
    /\ \E i \in 1..Len(conns) :
          /\ conns[i].status = 1
          /\ IF conns[i].banner # None
             THEN output_banner(conns[i].ip, conns[i].categories, conns[i].banner)
             ELSE banner_not_found(conns[i].ip, conns[i].categories)
          /\ conns' = [conns EXCEPT ![i] = response']
    /\ UNCHANGED <<config, started, banner_urls, banner_categories>>

NextSteps == BeginGet \/ FinishGet

SpecSteps == InitBurst /\ [][NextSteps]_vars

----------------------------------------------------------------------------
(* C16: the handling of a request is indivisible with respect to the other  *)
(* requests: while a handler is between its budget filter and its           *)
(* decrement no other handler is, the ledger and the history are those it   *)
(* read, and the banner it chose still has a count > 0 (nothing to retry).  *)

C16_HandlerIsIndivisible ==
    \A i \in 1..Len(conns) :
        conns[i].status = 1 =>
            /\ \A j \in 1..Len(conns) : j # i => conns[j].status # 1
            /\ banner_shows = conns[i].shows
            /\ last_banners = conns[i].last
            /\ conns[i].banner # None => banner_shows[conns[i].banner] > 0

\* a handler has chosen a banner while one request is answered and another
\* one waits
C16_Witness ==
    \E i, j, k \in 1..Len(conns) :
        /\ conns[i].status = 1
        /\ conns[i].banner # None
        /\ conns[j].status = 200
        /\ conns[k].status = 0

----------------------------------------------------------------------------
(* Requests without categories keep arriving: whenever the handler of such  *)
(* a request can change the state, one is eventually handled.               *)

GetAll ==
    /\ started
    /\ \E ip \in IPs : Handle(ip, <<>>)
    /\ UNCHANGED conns

SpecLive == Init /\ [][Next]_vars /\ WF_vars(GetAll)

----------------------------------------------------------------------------
(* C17: the serves of a run number at most the sum of the initial ledger    *)
(* counts; a request without categories is served as long as some count is  *)
(* > 0, whoever the client; when such requests keep arriving every count    *)
(* eventually is 0 and every request is answered 404 from then on.          *)

RECURSIVE Sum(_)
\* the sum of the values of a dict
Sum(d) ==
    IF DOMAIN d = {} THEN 0
    ELSE LET k == CHOOSE x \in DOMAIN d : TRUE
         IN  d[k] + Sum([x \in DOMAIN d \ {k} |-> d[x]])

NotFound == {<<404, None>>}

C17_NothingStranded ==
    started =>
        /\ Sum(serves) <= Sum(read_config(config).shows)
        /\ (\E u \in DOMAIN banner_shows : banner_shows[u] > 0) =>
              \A ip \in IPs : Outcomes(ip, <<>>) # NotFound

Exhausted ==
    /\ \A u \in DOMAIN banner_shows : banner_shows[u] = 0
    /\ \A rq \in Requests : Outcomes(rq[1], rq[2]) = NotFound

C17_ExhaustionAndLiveness ==
    []C17_NothingStranded /\ <>[](started => Exhausted)

====
